---- MODULE Spec2Model ----
(***************************************************************************)
(* State-machine model of src/lib/game.js (class PoetryGame): the poem     *)
(* loader, the round generator, the drop / touch / undo handlers, the      *)
(* completion check and the delayed restore to state R.                    *)
(*                                                                         *)
(* Characters are one-token strings.  The Chinese literals of the source   *)
(* are written as pinyin tokens with their tone number ("tai4" for the     *)
(* first character of line 60), the characters of a fetched poet.txt as    *)
(* "a", "b", and the three whitespace characters and the equals sign of a  *)
(* text as "SP", "LF", "CR" and "=".  A string of the program is a         *)
(* sequence of such tokens.  Indices of cards and of draggable characters  *)
(* are 0-based as in the source; sequences are 1-based.                    *)
(*                                                                         *)
(* The DOM is modelled by what the handlers read and write: per card the   *)
(* class, the text and the data-* attributes, per draggable character the  *)
(* data-* attributes and the "hidden" class.  An element that a closure or *)
(* lastDragAction still refers to after innerHTML replaced the document's  *)
(* elements is a detached element: writes to it do not show in the         *)
(* document (field "attached").                                            *)
(*                                                                         *)
(* Gestures come from one pointer: while a finger is down (touch # Null)   *)
(* the only other thing that can run is a timer callback.                  *)
(***************************************************************************)
EXTENDS Integers, Sequences, FiniteSets, TLC

VARIABLES
    pc,             \* position of the async init(): "loadPoems", "startGame", "ready"
    lineLength,     \* this.lineLength
    removeCount,    \* this.removeCount
    sections,       \* this.sections
    currentLines,   \* this.currentLines
    removedChars,   \* this.removedChars
    stateR,         \* this.stateR (Null or a snapshot)
    lastDragAction, \* this.lastDragAction (Null or {card, dragChar, char})
    cards,          \* the .char-card elements of #line1 and #line2, by <<line, index>>
    dragChars,      \* the .drag-char elements of #dragChars, by dragIndex + 1
    message,        \* class of #message: "", "success", "error"
    timers,         \* pending setTimeout callbacks of checkCompletion, oldest first
    touch,          \* the touch in progress (Null, or the element touchstart fired on)
    lastEvent,      \* the handler that ran last (see Event)
    speech          \* the call of speakChar under way or finished (Null: none)

vars == <<pc, lineLength, removeCount, sections, currentLines, removedChars, stateR,
          lastDragAction, cards, dragChars, message, timers, touch, lastEvent, speech>>

\* ------------------------------------------------------------------ bounds

\* Most restore callbacks that may be pending at once.
MaxTimers == 2

\* ------------------------------------------------------------- constants

DefaultLineLength == 5
DefaultRemoveCount == 4

\* null / undefined of a field that otherwise holds one object: the empty sequence;
\* an object is held as a one-element sequence.
Null == <<>>

Some(x) == <<x>>

NoPos == <<-1, -1>>

Undefined == "undefined"

\* What lastEvent records of a handler: its name, the card it targeted (NoPos when
\* it targets none) and, for a timer callback, whether startGame ran after the
\* callback was set.
Event(op, pos) == [op |-> op, pos |-> pos, restarted |-> FALSE]

\* ------------------------------------------------------------ JS helpers

Min(a, b) == IF a < b THEN a ELSE b

Max(a, b) == IF a > b THEN a ELSE b

\* Array.prototype.slice(0, end)
Slice0(seq, end) ==
    LET stop == IF end < 0 THEN Max(Len(seq) + end, 0) ELSE Min(end, Len(seq))
    IN  SubSeq(seq, 1, stop)

IsSpace(c) == c \in {"SP", "LF", "CR"}

RECURSIVE TrimLeft(_)
TrimLeft(s) ==
    IF s # <<>> /\ IsSpace(Head(s)) THEN TrimLeft(Tail(s)) ELSE s

RECURSIVE TrimRight(_)
TrimRight(s) ==
    IF s # <<>> /\ IsSpace(s[Len(s)]) THEN TrimRight(SubSeq(s, 1, Len(s) - 1)) ELSE s

\* String.prototype.trim
Trim(s) == TrimRight(TrimLeft(s))

StartsWith(s, sep) == Len(s) >= Len(sep) /\ SubSeq(s, 1, Len(sep)) = sep

\* String.prototype.split(sep) for a non-empty separator: the pieces between the
\* occurrences of sep, found left to right without overlap.
RECURSIVE SplitFrom(_, _, _)
SplitFrom(s, sep, piece) ==
    IF s = <<>> THEN <<piece>>
    ELSE IF StartsWith(s, sep)
         THEN <<piece>> \o SplitFrom(SubSeq(s, Len(sep) + 1, Len(s)), sep, <<>>)
         ELSE SplitFrom(Tail(s), sep, Append(piece, Head(s)))

Split(s, sep) == SplitFrom(s, sep, <<>>)

\* Every order a Fisher-Yates shuffle with Math.random() can leave seq in.
Shuffles_Overwrites(seq) ==
    {[i \in 1..Len(seq) |-> seq[f[i]]] : f \in [1..Len(seq) -> 1..Len(seq)]}

Shuffles(seq) ==
    {[i \in 1..Len(seq) |-> seq[p[i]]] : p \in Permutations(1..Len(seq))}

\* ------------------------------------------------------------- poem data

DefaultSection ==
    << <<"tai4", "yang2", "ha1", "ha1", "xiao4">>,
       <<"bei1", "shang4", "xiao3", "shu1", "bao1">>,
       <<"lu4", "shang4", "yu4", "hua1", "mao1">>,
       <<"hu2", "die2", "fei1", "ya5", "fei1">> >>

\* POLYPHONIC_MAP: one entry per line and polyphonic character of it, with the
\* character to speak instead.  A character is the same token wherever it occurs
\* ("shu4" in two lines, "bei1" and "tai4" also in DefaultSection); a substitute
\* that is another character is another token.
PolyphonicMap ==
    { [lineText |-> <<"bei1", "shang4", "xiao3", "shu1", "bao1">>,
       char |-> "bei1", speak |-> "bei1_grief"],
      [lineText |-> <<"wo3", "tiao4", "zhe5", "qu4", "zhui1">>,
       char |-> "zhe5", speak |-> "zhe5"],
      [lineText |-> <<"shu4", "xing1", "zha3", "yan3", "jing1">>,
       char |-> "shu4", speak |-> "shu3_belong"],
      [lineText |-> <<"qian1", "bi3", "xie3", "shu4", "zi4">>,
       char |-> "shu4", speak |-> "shu4_art"],
      [lineText |-> <<"kuai4", "zi5", "jia1", "dou4", "jiao3">>,
       char |-> "jiao3", speak |-> "jiao3_foot"],
      [lineText |-> <<"zhuo1", "mi2", "cang2", "zhen1", "miao4">>,
       char |-> "cang2", speak |-> "cang2"],
      [lineText |-> <<"guan1", "deng1", "shui4", "jue2", "jue2">>,
       char |-> "jue2", speak |-> "jiao4_call"],
      [lineText |-> <<"meng4", "li3", "you2", "tai4", "kong1">>,
       char |-> "kong1", speak |-> "kong1"] }

DefaultLines ==
    << <<"tai4", "yang2", "ha1", "ha1", "xiao4">>,
       <<"bei1", "shang4", "xiao3", "shu1", "bao1">> >>

\* Contents of poet.txt the fetch may deliver.
PoemTexts ==
    { \* "ab\nba\nab": one section of three 2-character lines
      <<"a", "b", "LF", "b", "a", "LF", "a", "b">>,
      \* "ab\r\nba\r\n": a file with CRLF line ends
      <<"a", "b", "CR", "LF", "b", "a", "CR", "LF">>,
      \* "a\nb\n===\nb\r\nb\nabc": two sections of 1-character lines
      <<"a", "LF", "b", "LF", "=", "=", "=", "LF", "b", "CR", "LF", "b", "LF",
        "a", "b", "c">> }

\* The config objects the constructor is given (0: the property is not set).
\* Each has 0 < removeCount <= 2 * lineLength and lines no longer than the built-in
\* ones.
Configs ==
    { [lineLength |-> 0, removeCount |-> 1],
      [lineLength |-> 1, removeCount |-> 2],
      [lineLength |-> 2, removeCount |-> 1] }

\* Other config objects: removeCount > 2 * lineLength, lineLength <= 0, and lines
\* longer than the built-in ones.
OtherConfigs ==
    { [lineLength |-> 1, removeCount |-> 3],
      [lineLength |-> -1, removeCount |-> 1],
      [lineLength |-> 6, removeCount |-> 1] }

\* ------------------------------------------------------------ constructor

\* config.x || d
OrDefault(v, d) == IF v = 0 THEN d ELSE v

Constructed(config) ==
    /\ pc = "loadPoems"
    /\ lineLength = OrDefault(config.lineLength, DefaultLineLength)
    /\ removeCount = OrDefault(config.removeCount, DefaultRemoveCount)
    /\ sections = <<>>
    /\ currentLines = <<>>
    /\ removedChars = <<>>
    /\ stateR = Null
    /\ lastDragAction = Null
    /\ cards = <<>>
    /\ dragChars = <<>>
    /\ message = ""
    /\ timers = <<>>
    /\ touch = Null
    /\ lastEvent = Event("constructor", NoPos)

Init == speech = Null /\ \E config \in Configs : Constructed(config)

InitConfig ==
    speech = Null /\ \E config \in Configs \cup OtherConfigs : Constructed(config)

\* -------------------------------------------------------------- loadPoems

KeepLine(line) == Len(Trim(line)) = lineLength

SectionLines(section) == SelectSeq(Split(Trim(section), <<"LF">>), KeepLine)

\* rawSections.map(section => ...)
MapSectionLines(rawSections) ==
    [k \in 1..Len(rawSections) |-> SectionLines(rawSections[k])]

AtLeastTwo(section) == Len(section) >= 2

\* The try block of loadPoems on the text of poet.txt.
ParsePoems(text) ==
    SelectSeq(MapSectionLines(Split(Trim(text), <<"=", "=", "=">>)), AtLeastTwo)

\* loadPoems: the fetch (or response.text()) rejects, or delivers a text.
LoadPoems ==
    /\ pc = "loadPoems"
    /\ \/ sections' = <<DefaultSection>>
       \/ \E text \in PoemTexts : sections' = ParsePoems(text)
    /\ pc' = "startGame"
    /\ lastEvent' = Event("loadPoems", NoPos)
    /\ UNCHANGED <<speech, lineLength, removeCount, currentLines, removedChars, stateR,
                   lastDragAction, cards, dragChars, message, timers, touch>>

\* -------------------------------------------------------------- startGame

\* Two lines drawn from the corpus without regard to the section boundaries.
LinePairs_AcrossSections ==
    IF Len(sections) = 0
    THEN {DefaultLines}
    ELSE UNION {UNION {{<<sections[s][i], sections[t][j]>> :
                           i \in DOMAIN sections[s], j \in DOMAIN sections[t]} :
                       t \in DOMAIN sections} : s \in DOMAIN sections}

\* selectRandomLines: the pairs of lines it can choose.
LinePairs ==
    IF Len(sections) = 0
    THEN {DefaultLines}
    ELSE UNION {{<<sections[s][i + 1], sections[s][i + 2]>> :
                    i \in 0..(Len(sections[s]) - 2)} : s \in 1..Len(sections)}

\* createCharCard
CreateCharCard(char) ==
    [char |-> char, className |-> "filled", textContent |-> char,
     filled |-> Undefined, filledChar |-> Undefined, dropZone |-> FALSE]

CardPositions(lines) ==
    UNION {{<<l, i>> : i \in 0..(Len(lines[l + 1]) - 1)} : l \in 0..1}

\* renderPoem
RenderPoem(lines) ==
    [p \in CardPositions(lines) |-> CreateCharCard(lines[p[1] + 1][p[2] + 1])]

\* removeRandomChars, lines 227-232: the 2 x lineLength grid, line by line.
AllPositions ==
    [k \in 1..(2 * Max(lineLength, 0)) |->
        <<(k - 1) \div lineLength, (k - 1) % lineLength>>]

\* Every sequence of k elements of S, repeats allowed: what a draw of a random
\* position per blank would give, without the shuffle.
RECURSIVE Arrangements_WithRepeats(_, _)
Arrangements_WithRepeats(S, k) ==
    IF k = 0
    THEN {<<>>}
    ELSE UNION {{<<x>> \o t : t \in Arrangements_WithRepeats(S, k - 1)} : x \in S}

\* Every sequence of k distinct elements of S.
RECURSIVE Arrangements(_, _)
Arrangements(S, k) ==
    IF k = 0
    THEN {<<>>}
    ELSE UNION {{<<x>> \o t : t \in Arrangements(S \ {x}, k - 1)} : x \in S}

\* removeRandomChars, lines 235-241: the Fisher-Yates shuffle of allPositions, then
\* slice(0, removeCount).  The shuffle can leave the list in any order, so the
\* slice can be any sequence of that many distinct positions.
PositionsToRemove ==
    Arrangements({AllPositions[k] : k \in DOMAIN AllPositions},
                 Len(Slice0(AllPositions, removeCount)))

\* lineEl.children[pos.index] is an element.
HasCard(lines, pos) == pos[2] < Len(lines[pos[1] + 1])

\* The positions the forEach of line 243 handles before card.dataset throws on a
\* position with no card (all of them when every position has a card).
Handled(lines, positions) ==
    LET n == CHOOSE k \in 0..Len(positions) :
                /\ \A j \in 1..k : HasCard(lines, positions[j])
                /\ k = Len(positions) \/ ~HasCard(lines, positions[k + 1])
    IN  SubSeq(positions, 1, n)

RemovedChar(lines, pos) ==
    [char |-> lines[pos[1] + 1][pos[2] + 1], line |-> pos[1], index |-> pos[2],
     lineText |-> lines[pos[1] + 1]]

\* lines 257-262: the card becomes a blank with a drop zone.
BlankCard(card) ==
    [card EXCEPT !.className = "empty", !.textContent = "", !.filled = "false",
                 !.dropZone = TRUE]

\* renderDragChars
RenderDragChars(chars) ==
    [k \in 1..Len(chars) |->
        [char |-> chars[k].char, lineText |-> chars[k].lineText, hidden |-> FALSE]]

\* innerHTML of the two lines: the elements without their listeners.
LinesHTML(cs) == [p \in DOMAIN cs |-> [cs[p] EXCEPT !.dropZone = FALSE]]

\* saveStateR
SaveStateR(cs, dcs, removed) ==
    Some([linesHTML |-> LinesHTML(cs), dragCharsHTML |-> dcs, removedChars |-> removed])

\* startGame.  A pending timer stays pending: nothing clears it.
StartGame ==
    \E lines \in LinePairs :
    \E positions \in PositionsToRemove :
        LET done    == Handled(lines, positions)
            threw   == Len(done) < Len(positions)
            removed == [k \in 1..Len(done) |-> RemovedChar(lines, done[k])]
            blanks  == {done[k] : k \in 1..Len(done)}
            poem    == RenderPoem(lines)
            newCards == [p \in DOMAIN poem |->
                            IF p \in blanks THEN BlankCard(poem[p]) ELSE poem[p]]
        IN  /\ lastDragAction' = Null
            /\ currentLines' = lines
            /\ cards' = newCards
            /\ removedChars' = removed
            /\ IF threw
               THEN UNCHANGED <<dragChars, stateR, message>>
               ELSE \E shuffledChars \in Shuffles(removed) :
                       /\ dragChars' = RenderDragChars(shuffledChars)
                       /\ stateR' = SaveStateR(newCards, dragChars', removed)
                       /\ message' = ""
            /\ timers' = [k \in 1..Len(timers) |-> [restarted |-> TRUE]]
            /\ UNCHANGED <<speech, lineLength, removeCount, sections, touch>>

\* init() after the await: bindEvents, startGame.
InitStartGame ==
    /\ pc = "startGame"
    /\ StartGame
    /\ pc' = "ready"
    /\ lastEvent' = Event("startGame", NoPos)

\* click on #restartBtn
Restart ==
    /\ pc = "ready"
    /\ touch = Null
    /\ StartGame
    /\ UNCHANGED pc
    /\ lastEvent' = Event("startGame", NoPos)

\* -------------------------------------------------------- checkCompletion

EmptyCards(cs) == {p \in DOMAIN cs : cs[p].className = "empty"}

FilledCards(cs) == {p \in DOMAIN cs : cs[p].filled = "true"}

\* The verdict of checkCompletion on the cards cs.
Verdict_NoCompare(cs) ==
    IF Cardinality(EmptyCards(cs)) > 0 \/ Cardinality(FilledCards(cs)) < removeCount
    THEN "Incomplete"
    ELSE "Correct"

\* (the comparison run over every .char-card instead of the filled blanks)
Verdict_AllCards(cs) ==
    IF Cardinality(EmptyCards(cs)) > 0 \/ Cardinality(FilledCards(cs)) < removeCount
    THEN "Incomplete"
    ELSE IF \A p \in DOMAIN cs : cs[p].char = cs[p].filledChar
         THEN "Correct"
         ELSE "Incorrect"

Verdict(cs) ==
    IF Cardinality(EmptyCards(cs)) > 0 \/ Cardinality(FilledCards(cs)) < removeCount
    THEN "Incomplete"
    ELSE IF \A p \in FilledCards(cs) : cs[p].char = cs[p].filledChar
         THEN "Correct"
         ELSE "Incorrect"

\* (showError without the setTimeout of line 480)
CheckCompletion_NoTimer(cs) ==
    LET v == Verdict(cs)
    IN  /\ message' = CASE v = "Correct" -> "success"
                        [] v = "Incorrect" -> "error"
                        [] OTHER -> message
        /\ timers' = timers

\* checkCompletion: showSuccess, or showError and setTimeout(restoreStateR, 1500).
CheckCompletion(cs) ==
    LET v == Verdict(cs)
    IN  /\ v = "Incorrect" => Len(timers) < MaxTimers
        /\ message' = CASE v = "Correct" -> "success"
                        [] v = "Incorrect" -> "error"
                        [] OTHER -> message
        /\ timers' = IF v = "Incorrect"
                     THEN Append(timers, [restarted |-> FALSE])
                     ELSE timers

\* (an evaluation that empties the filled blanks itself on an Incorrect verdict)
CardsAfterCheck_ClearsOnError(cs) ==
    IF Verdict(cs) = "Incorrect"
    THEN [p \in DOMAIN cs |->
             IF cs[p].filled = "true"
             THEN [cs[p] EXCEPT !.className = "empty", !.textContent = "",
                                !.filled = "false", !.filledChar = Undefined]
             ELSE cs[p]]
    ELSE cs

\* The cards once checkCompletion has returned: lines 457-473 only query the cards
\* and read their dataset, and assign nothing to them.
CardsAfterCheck(cs) == cs

\* ------------------------------------------------------------ the handlers

\* line 336 (and the last conjunct of line 422): the card already holds a character.
IsFilled_Never(card) == FALSE

IsFilled(card) == card.filled = "true"

\* lines 348-352 and 427-431: the record of the drag, for undo.
DragAction_KeepsPending(card, dragIndex, attached, char) ==
    IF lastDragAction # Null
    THEN lastDragAction
    ELSE Some([card |-> card, dragChar |-> dragIndex, attached |-> attached, char |-> char])

DragAction(card, dragIndex, attached, char) ==
    Some([card |-> card, dragChar |-> dragIndex, attached |-> attached, char |-> char])

\* lines 356-359 and 434-437: the card takes the character.
FillCard(card, char) ==
    [card EXCEPT !.textContent = char, !.filledChar = char, !.filled = "true",
                 !.className = "filled"]

\* classList.add('hidden') / remove('hidden') on a draggable character; on a
\* detached element it does not show in the document.
SetHidden(dcs, dragIndex, attached, hidden) ==
    IF attached /\ dragIndex + 1 \in DOMAIN dcs
    THEN [dcs EXCEPT ![dragIndex + 1].hidden = hidden]
    ELSE dcs

\* drop on the card at p of the draggable character dragIndex (dragstart put its
\* character and index into dataTransfer).
Drop(p, dragIndex) ==
    /\ pc = "ready"
    /\ touch = Null
    /\ p \in DOMAIN cards
    /\ cards[p].dropZone
    /\ dragIndex + 1 \in DOMAIN dragChars
    /\ ~dragChars[dragIndex + 1].hidden
    /\ lastEvent' = Event("drop", p)
    /\ IF IsFilled(cards[p])
       THEN UNCHANGED <<lastDragAction, cards, dragChars, message, timers>>
       ELSE LET char == dragChars[dragIndex + 1].char
            IN  /\ lastDragAction' = DragAction(p, dragIndex, TRUE, char)
                /\ cards' = CardsAfterCheck([cards EXCEPT ![p] = FillCard(@, char)])
                /\ dragChars' = SetHidden(dragChars, dragIndex, TRUE, TRUE)
                /\ CheckCompletion(cards')
    /\ UNCHANGED <<speech, pc, lineLength, removeCount, sections, currentLines, removedChars,
                   stateR, touch>>

\* touchstart on the draggable character dragIndex
TouchStart(dragIndex) ==
    /\ pc = "ready"
    /\ touch = Null
    /\ dragIndex + 1 \in DOMAIN dragChars
    /\ ~dragChars[dragIndex + 1].hidden
    /\ touch' = Some([dragIndex |-> dragIndex, char |-> dragChars[dragIndex + 1].char,
                      attached |-> TRUE])
    /\ lastEvent' = Event("touchstart", NoPos)
    /\ UNCHANGED <<speech, pc, lineLength, removeCount, sections, currentLines, removedChars,
                   stateR, lastDragAction, cards, dragChars, message, timers>>

\* touchend with the finger over the card at target (NoPos: over no card)
TouchEnd(target) ==
    /\ touch # Null
    /\ target \in DOMAIN cards \cup {NoPos}
    /\ touch' = Null
    /\ lastEvent' = Event("touchend", target)
    /\ IF /\ target # NoPos
          /\ cards[target].className = "empty"
          /\ ~IsFilled(cards[target])
       THEN LET charEl == touch[1]
            IN  /\ lastDragAction' = DragAction(target, charEl.dragIndex, charEl.attached,
                                                charEl.char)
                /\ cards' = CardsAfterCheck([cards EXCEPT ![target] =
                                                 FillCard(@, charEl.char)])
                /\ dragChars' = SetHidden(dragChars, charEl.dragIndex, charEl.attached, TRUE)
                /\ CheckCompletion(cards')
       ELSE UNCHANGED <<lastDragAction, cards, dragChars, message, timers>>
    /\ UNCHANGED <<speech, pc, lineLength, removeCount, sections, currentLines, removedChars,
                   stateR>>

\* lines 116-121: the card is a blank again.
ClearCard_StaysFilled(card) ==
    [card EXCEPT !.className = "empty", !.textContent = ""]

ClearCard(card) ==
    [card EXCEPT !.className = "empty", !.textContent = "", !.filled = "false",
                 !.filledChar = Undefined]

\* undoLastDrag (click on #undoBtn)
UndoLastDrag ==
    /\ pc = "ready"
    /\ touch = Null
    /\ lastEvent' = Event("undo", NoPos)
    /\ IF lastDragAction = Null
       THEN UNCHANGED <<lastDragAction, cards, dragChars>>
       ELSE LET a == lastDragAction[1]
            IN  /\ cards' = [cards EXCEPT ![a.card] = ClearCard(@)]
                /\ dragChars' = SetHidden(dragChars, a.dragChar, a.attached, FALSE)
                /\ lastDragAction' = Null
    /\ UNCHANGED <<speech, pc, lineLength, removeCount, sections, currentLines, removedChars,
                   stateR, message, timers, touch>>

\* rebindEvents, lines 522-524: the empty cards get their drop zone.
RebindCards(html) ==
    [p \in DOMAIN html |-> [html[p] EXCEPT !.dropZone = (html[p].className = "empty")]]

\* line 506: the elements that dragCharsHTML describes.
FromDragCharsHTML_Kept(html) == dragChars

FromDragCharsHTML(html) == html

\* The elements a closure holds are detached once innerHTML replaced them.
Detached(t) == IF t = Null THEN Null ELSE Some([t[1] EXCEPT !.attached = FALSE])

\* The callback of setTimeout (line 480): restoreStateR, rebindEvents, clearMessage.
RestoreStateR ==
    /\ timers # <<>>
    /\ timers' = Tail(timers)
    /\ lastEvent' = [op |-> "restoreStateR", pos |-> NoPos, restarted |-> Head(timers).restarted]
    /\ IF stateR = Null
       THEN UNCHANGED <<cards, dragChars, lastDragAction, message, touch>>
       ELSE /\ cards' = RebindCards(stateR[1].linesHTML)
            /\ dragChars' = FromDragCharsHTML(stateR[1].dragCharsHTML)
            /\ lastDragAction' = Null
            /\ message' = ""
            /\ touch' = Detached(touch)
    /\ UNCHANGED <<speech, pc, lineLength, removeCount, sections, currentLines, removedChars,
                   stateR>>

\* ---------------------------------------------------------------- speakChar

\* POLYPHONIC_MAP[lineText] is an object.
MapHasLine(lineText) == \E e \in PolyphonicMap : e.lineText = lineText

\* POLYPHONIC_MAP[lineText][char], as the set of its values (empty: undefined).
MapEntry(lineText, char) ==
    {e.speak : e \in {x \in PolyphonicMap : x.lineText = lineText /\ x.char = char}}

\* (a table keyed by the character alone)
SpeakText_AnyLine(char, lineText) ==
    LET found == {e.speak : e \in {x \in PolyphonicMap : x.char = char}}
    IN  IF found # {} THEN CHOOSE t \in found : TRUE ELSE char

\* lines 92-95.  null and the empty string are both falsy, and both are <<>> here.
SpeakText(char, lineText) ==
    IF lineText # Null /\ MapHasLine(lineText) /\ MapEntry(lineText, char) # {}
    THEN CHOOSE t \in MapEntry(lineText, char) : TRUE
    ELSE char

\* The lines speakChar is called with: those of the table, those of the default
\* section, a line of poet.txt, and null (the default of the parameter).
SpokenLines ==
    {e.lineText : e \in PolyphonicMap}
        \cup {DefaultSection[k] : k \in DOMAIN DefaultSection}
        \cup {<<"a", "b">>, Null}

\* The characters it is called with: every character of those lines.
SpokenChars == UNION {{line[k] : k \in DOMAIN line} : line \in SpokenLines}

\* A call speakChar(char, lineText) about to run, in a browser with or without
\* speechSynthesis.
SpeakCalls ==
    {Some([char |-> c, lineText |-> t, synthesis |-> b, spoken |-> Null]) :
        c \in SpokenChars, t \in SpokenLines, b \in BOOLEAN}

\* speakChar: the utterance handed to speechSynthesis.speak, if there is one.
SpeakChar ==
    /\ speech # Null
    /\ speech[1].spoken = Null
    /\ speech[1].synthesis
    /\ speech' = Some([speech[1] EXCEPT
                         !.spoken = Some(SpeakText(speech[1].char, speech[1].lineText))])
    /\ UNCHANGED <<pc, lineLength, removeCount, sections, currentLines, removedChars,
                   stateR, lastDragAction, cards, dragChars, message, timers, touch,
                   lastEvent>>

\* ---------------------------------------------------------- specification

\* Where a finger can be lifted: over a card that was blanked, or (NoPos) over
\* anything else.  A card that never was a blank has the class "filled" and takes
\* the branch of touchend that any other element takes.
TouchTargets == {p \in DOMAIN cards : cards[p].filled # Undefined} \cup {NoPos}

Next ==
    \/ LoadPoems
    \/ InitStartGame
    \/ Restart
    \/ \E p \in DOMAIN cards, dragIndex \in 0..3 : Drop(p, dragIndex)
    \/ \E dragIndex \in 0..3 : TouchStart(dragIndex)
    \/ \E target \in TouchTargets : TouchEnd(target)
    \/ UndoLastDrag
    \/ RestoreStateR

Spec == Init /\ [][Next]_vars

SpecConfig == InitConfig /\ [][Next]_vars

\* The event loop runs the callback of every setTimeout once its delay has passed:
\* line 480 drops the handle, so no timer is ever cleared.
SpecFair == Init /\ [][Next]_vars /\ WF_vars(RestoreStateR)

\* speakChar on its own, over every call in SpeakCalls.
InitSpeak ==
    /\ speech \in SpeakCalls
    /\ Constructed([lineLength |-> 0, removeCount |-> 0])

NextSpeak == SpeakChar

SpecSpeak == InitSpeak /\ [][NextSpeak]_vars

\* ---------------------------------------------------------------- claims

\* The blank positions of the Round: the cards that carry data-filled.
Blanks == {p \in DOMAIN cards : cards[p].filled # Undefined}

EmptyBlanks == {p \in Blanks : cards[p].filled # "true"}

\* The draggable characters that are consumed (hidden), by dragIndex.
Consumed == {k - 1 : k \in {j \in DOMAIN dragChars : dragChars[j].hidden}}

IsFillEvent(e) == e.op \in {"drop", "touchend"} /\ e.pos \in DOMAIN cards

\* C1: a restore that was scheduled before the last startGame never resets an
\* assignment, a consumed candidate or lastDragAction of the new Round.
C1_NoRestoreFromPreviousRound ==
    [][(lastEvent'.op = "restoreStateR" /\ timers # <<>> /\ Head(timers).restarted)
          => UNCHANGED <<cards, dragChars, lastDragAction>>]_vars

\* C2: once the Round is evaluated Correct, no fill and no undo changes the blanks
\* or the candidates.
C2_CorrectIsTerminal ==
    [][(/\ Verdict(cards) = "Correct"
        /\ message = "success"
        /\ lastEvent'.op \in {"drop", "touchend", "undo"})
          => UNCHANGED <<cards, dragChars, lastDragAction>>]_vars

\* C3: a restore after an Incorrect verdict of the same Round leaves every blank
\* empty, every candidate available and lastDragAction cleared, with the same two
\* lines and the same blank positions as before.
C3_RestoreResetsRound ==
    [][(lastEvent'.op = "restoreStateR" /\ timers # <<>> /\ ~Head(timers).restarted)
          => /\ \A p \in Blanks' :
                  /\ cards'[p].filled = "false"
                  /\ cards'[p].className = "empty"
                  /\ cards'[p].textContent = ""
                  /\ cards'[p].dropZone
             /\ \A k \in DOMAIN dragChars' : ~dragChars'[k].hidden
             /\ lastDragAction' = Null
             /\ currentLines' = currentLines
             /\ Blanks' = Blanks
             /\ DOMAIN cards' = DOMAIN cards
             /\ \A p \in DOMAIN cards : cards'[p].char = cards[p].char
             /\ \A p \in DOMAIN cards \ Blanks : cards'[p] = cards[p]
             /\ Len(dragChars') = Len(dragChars)
             /\ \A k \in DOMAIN dragChars : dragChars'[k].char = dragChars[k].char]_vars

\* A restore of the Round's own Incorrect verdict has run, and the Round has blanks.
C3_Witness ==
    /\ lastEvent.op = "restoreStateR"
    /\ ~lastEvent.restarted
    /\ Cardinality(Blanks) = 2
    /\ EmptyBlanks = Blanks

\* C4: a drop or touch drop on a blank that is already filled changes no card, no
\* candidate and not lastDragAction, and triggers no evaluation.
C4_FillOnFilledBlankIsBlocked ==
    [][(IsFillEvent(lastEvent') /\ cards[lastEvent'.pos].filled = "true")
          => UNCHANGED <<cards, dragChars, lastDragAction, message, timers>>]_vars

\* A fill gesture has just hit a filled blank that the pending undo record does not
\* name (so the gesture was not the fill of that blank).
C4_Witness ==
    /\ IsFillEvent(lastEvent)
    /\ cards[lastEvent.pos].filled = "true"
    /\ lastDragAction = Null

\* C5: undo with lastDragAction unset changes nothing; otherwise it empties exactly
\* the blank of lastDragAction, makes exactly its candidate available and clears
\* lastDragAction (so a second undo in a row changes nothing).
C5_UndoReversesLastDrag ==
    [][lastEvent'.op = "undo"
          => IF lastDragAction = Null
             THEN UNCHANGED <<cards, dragChars, lastDragAction, message, timers, stateR>>
             ELSE LET a == lastDragAction[1]
                  IN  /\ cards'[a.card].filled = "false"
                      /\ cards'[a.card].className = "empty"
                      /\ cards'[a.card].textContent = ""
                      /\ cards'[a.card].filledChar = Undefined
                      /\ \A p \in DOMAIN cards \ {a.card} : cards'[p] = cards[p]
                      /\ DOMAIN cards' = DOMAIN cards
                      /\ Consumed' = Consumed \ {a.dragChar}
                      /\ lastDragAction' = Null]_vars

\* An undo has run after a verdict and one blank is empty again.
C5_Witness ==
    /\ lastEvent.op = "undo"
    /\ lastDragAction = Null
    /\ message # ""
    /\ Cardinality(EmptyBlanks) = 1

\* C6: a successful fill makes itself the one pending undo record, and an undo
\* leaves every other filled blank filled with the same character and every
\* other consumed candidate consumed; an undo right after an undo changes nothing.
C6_UndoDepthOne ==
    [][/\ (IsFillEvent(lastEvent') /\ cards[lastEvent'.pos] # cards'[lastEvent'.pos])
          => /\ lastDragAction' # Null
             /\ lastDragAction'[1].card = lastEvent'.pos
             /\ lastDragAction'[1].char = cards'[lastEvent'.pos].filledChar
       /\ lastEvent'.op = "undo"
          => /\ \A p \in DOMAIN cards :
                  (cards[p].filled = "true"
                     /\ (lastDragAction = Null \/ lastDragAction[1].card # p))
                  => cards'[p] = cards[p]
             /\ \A k \in Consumed :
                  (lastDragAction = Null \/ lastDragAction[1].dragChar # k)
                  => k \in Consumed'
       /\ (lastEvent'.op = "undo" /\ lastEvent.op = "undo")
          => UNCHANGED <<cards, dragChars, lastDragAction>>]_vars

\* Two blanks were filled, an undo has run, and the earlier fill is still in place.
C6_Witness ==
    /\ lastEvent.op = "undo"
    /\ message # ""
    /\ Cardinality(Blanks) = 2
    /\ Cardinality(EmptyBlanks) = 1
    /\ Cardinality(Consumed) = 1

C9_BadConfigFailsFast ==
    (lineLength <= 0 \/ removeCount > 2 * lineLength)
        => (currentLines = <<>> /\ cards = <<>> /\ dragChars = <<>> /\ stateR = Null)

\* C10: after a failed load, or a load that kept no section, startGame produces
\* two lines of length lineLength with removeCount blanks and removeCount
\* candidates (for a config with 0 < lineLength and removeCount <= 2 * lineLength).
C10_FallbackIsPlayable ==
    (/\ lastEvent.op = "startGame"
     /\ sections = <<>> \/ sections = <<DefaultSection>>
     /\ lineLength > 0
     /\ removeCount <= 2 * lineLength)
        => /\ Len(currentLines) = 2
           /\ \A l \in 1..2 : Len(currentLines[l]) = lineLength
           /\ Cardinality(Blanks) = removeCount
           /\ Len(dragChars) = removeCount
           /\ stateR # Null

\* C11: after loadPoems of a fetched text every stored line of every section has
\* length exactly lineLength.
C11_StoredLinesHaveLineLength ==
    (pc # "loadPoems" /\ sections # <<DefaultSection>>)
        => \A k \in DOMAIN sections :
              \A i \in DOMAIN sections[k] : Len(sections[k][i]) = lineLength

C13_CandidatesAreRemovedChars ==
    pc = "ready"
        => LET Offered(c, t) == {k \in DOMAIN dragChars :
                                    dragChars[k].char = c /\ dragChars[k].lineText = t}
               Removed(c, t) == {k \in DOMAIN removedChars :
                                    removedChars[k].char = c
                                       /\ removedChars[k].lineText = t}
               AtBlanks(c, t) == {p \in Blanks :
                                    cards[p].char = c /\ currentLines[p[1] + 1] = t}
           IN  /\ Len(dragChars) = Cardinality(Blanks)
               /\ Len(dragChars) = Len(removedChars)
               /\ \A k \in DOMAIN dragChars :
                     LET c == dragChars[k].char
                         t == dragChars[k].lineText
                     IN  /\ Cardinality(Offered(c, t)) = Cardinality(AtBlanks(c, t))
                         /\ Cardinality(Offered(c, t)) = Cardinality(Removed(c, t))
                         /\ t \in {currentLines[1], currentLines[2]}

\* A Round with a blank in each line whose candidates are offered in another order
\* than they were removed.
C13_Witness ==
    /\ pc = "ready"
    /\ Len(dragChars) = 2
    /\ Len(removedChars) = 2
    /\ dragChars[1].lineText # dragChars[2].lineText
    /\ dragChars[1].char # removedChars[1].char

\* C14: with a non-empty corpus the two lines of a Round are the lines at indices
\* start and start + 1 of one section, start + 1 being within that section.
C14_LinesAdjacentInOneSection ==
    (pc = "ready" /\ sections # <<>>)
        => \E k \in DOMAIN sections :
              \E start \in 0..(Len(sections[k]) - 2) :
                 currentLines = <<sections[k][start + 1], sections[k][start + 2]>>

\* startGame has just chosen its lines from the second of two sections.
C14_Witness ==
    /\ pc = "ready"
    /\ lastEvent.op = "startGame"
    /\ Len(sections) = 2
    /\ currentLines = <<sections[2][1], sections[2][2]>>
    /\ currentLines # <<sections[1][1], sections[1][2]>>

\* C15: every Incorrect verdict is eventually followed, when the timer callback is
\* fairly scheduled, by a restore that leaves the Round at its snapshot (blanks
\* empty, no candidate consumed, lastDragAction cleared) and still in play, unless
\* the Round is restarted first.
C15_IncorrectLeadsToRestore ==
    (/\ IsFillEvent(lastEvent)
     /\ lastDragAction # Null
     /\ EmptyBlanks = {}
     /\ message = "error"
     /\ \E p \in Blanks : cards[p].filledChar # cards[p].char)
        ~> \/ /\ lastEvent.op = "restoreStateR"
              /\ pc = "ready"
              /\ EmptyBlanks = Blanks
              /\ Consumed = {}
              /\ lastDragAction = Null
              /\ message = ""
           \/ lastEvent.op = "startGame"

\* The restore of an Incorrect verdict of the Round has run and no other is pending.
C15_Witness ==
    /\ lastEvent.op = "restoreStateR"
    /\ ~lastEvent.restarted
    /\ timers = <<>>
    /\ touch = Null
    /\ Blanks # {}
    /\ EmptyBlanks = Blanks
    /\ Consumed = {}
    /\ message = ""

\* C16: the evaluation that follows a fill changes nothing of the Round, whatever
\* its verdict: after the step the cards are those before it with the one blank
\* filled, the candidates those before it with at most the dragged one consumed,
\* lastDragAction is the record of this fill, and the snapshot, the removed
\* characters and the lines are untouched.
C16_EvaluationIsPureRead ==
    [][(/\ IsFillEvent(lastEvent')
        /\ lastEvent'.pos \in Blanks
        /\ ~IsFilled(cards[lastEvent'.pos]))
          => /\ lastDragAction' # Null
             /\ lastDragAction'[1].card = lastEvent'.pos
             /\ cards' = [cards EXCEPT
                            ![lastEvent'.pos] = FillCard(@, lastDragAction'[1].char)]
             /\ Len(dragChars') = Len(dragChars)
             /\ \A k \in DOMAIN dragChars :
                   /\ dragChars'[k].char = dragChars[k].char
                   /\ dragChars'[k].lineText = dragChars[k].lineText
                   /\ dragChars'[k].hidden # dragChars[k].hidden
                         => (k - 1 = lastDragAction'[1].dragChar /\ dragChars'[k].hidden)
             /\ UNCHANGED <<stateR, removedChars, currentLines, pc>>]_vars

\* A fill has just been evaluated Incorrect, with every blank still holding what the
\* player put there and every candidate still consumed.
C16_Witness ==
    /\ IsFillEvent(lastEvent)
    /\ message = "error"
    /\ lastDragAction # Null
    /\ lastDragAction[1].card = lastEvent.pos
    /\ cards[lastEvent.pos].filledChar = lastDragAction[1].char
    /\ Cardinality(Blanks) = 2
    /\ EmptyBlanks = {}
    /\ Cardinality(Consumed) = 2
    /\ stateR # Null

\* C17: what speakChar speaks for (char, lineText) is the substitute of the table
\* when the table has the pair and char itself otherwise, in particular when
\* lineText is null or is a line the table does not have.
C17_PronunciationLookup ==
    (speech # Null /\ speech[1].spoken # Null)
        => LET call == speech[1]
               hits == {e \in PolyphonicMap :
                           e.lineText = call.lineText /\ e.char = call.char}
           IN  /\ hits # {} => \A e \in hits : call.spoken = Some(e.speak)
               /\ hits = {} => call.spoken = Some(call.char)
               /\ call.lineText = Null => call.spoken = Some(call.char)

\* speakChar has spoken a substitute for a character that another line of the table
\* maps differently.
C17_Witness ==
    /\ speech # Null
    /\ speech[1].char = "shu4"
    /\ speech[1].lineText = <<"qian1", "bi3", "xie3", "shu4", "zi4">>
    /\ speech[1].spoken = Some("shu4_art")

\* C18: within one Round a restore only runs on cards that evaluate Incorrect
\* (every blank filled, at least one mismatch), so it never empties a Round that
\* is Incomplete or Correct, and at most one restore of the Round is pending.
C18_RestoreOnlyWhenIncorrect ==
    [][/\ (/\ lastEvent'.op = "restoreStateR"
           /\ timers # <<>>
           /\ timers' = Tail(timers)
           /\ ~Head(timers).restarted)
          => /\ EmptyBlanks = {}
             /\ \E p \in Blanks : cards[p].filledChar # cards[p].char
       /\ Cardinality({k \in DOMAIN timers' : ~timers'[k].restarted}) <= 1]_vars

\* C19: in every state the consumed (hidden) candidates correspond one to one to
\* the filled blanks: as many blanks are filled as candidates are consumed.
C19_ConsumedMatchFilled ==
    pc = "ready"
        => Cardinality(Consumed) = Cardinality({p \in Blanks : IsFilled(cards[p])})

====
